---- MODULE Spec2Model ----
(***************************************************************************)
(* Secret Santa draw (ChristmasKurasi): the derangement generator, the     *)
(* assignment validator, the store's hydration from localStorage and the   *)
(* store's actions.                                                        *)
(*                                                                         *)
(*   SpecGen  one call of generateDerangement, one step per loop attempt   *)
(*   SpecGenVal the same call, its result then handed to the validator     *)
(*   SpecVal  validateAssignments on well-typed inputs, with single edits  *)
(*   SpecRaw  validateAssignments on values as JSON.parse can deliver them *)
(*   SpecLoad creation of the store from a localStorage content            *)
(*   SpecStore the store's actions and page reloads, from an empty storage *)
(*   SpecDup  validator and generator on lists that carry an id twice     *)
(*   SpecScreens the store driven through the controls of the screens      *)
(***************************************************************************)
EXTENDS Integers, Sequences, FiniteSets, TLC

VARIABLES
    \* ---- one call of generateDerangement (App.tsx:132-163)
    participants,   \* the argument: a sequence of [id, name]
    maxAttempts,    \* the argument maxAttempts
    pc,             \* "entry" | "loop" | "done" ("idle": no call)
    ids,            \* const ids = participants.map(p => p.id)
    attempt,        \* the loop counter
    shuffles,       \* history: the value of shuffledIds in each attempt made
    result,         \* the returned value (Null or Some(assignments))
    console,        \* the console.error / console.log lines written
    \* ---- one call of validateAssignments on typed inputs (App.tsx:169-206)
    vParticipants,  \* argument participants
    vAssignments,   \* argument assignments
    vBase,          \* the assignment list before the last edit
    vEdit,          \* the edit that produced vAssignments from vBase
    vResult,        \* "none" | "true" | "false": what the call returned
    \* ---- one call of validateAssignments on untyped values
    rawParticipants,
    rawAssignments,
    rawOutcome,     \* "none" | "true" | "false" | "throws" ("idle": no call)
    \* ---- localStorage and the store (useSecretSantaStore.ts)
    storage,        \* the five keys of STORAGE_KEYS
    page,           \* "closed" | "open": whether the store has been created
    store,          \* the zustand state
    validated,      \* the calls of validateAssignments the last load made
                    \* (emptied by the next call on the store)
    lastOp,         \* the last call made on the store: its name, the id it
                    \* used, what it returned, what the generator gave it
    draws,          \* successful generator calls since the store was last emptied
    clock           \* the number of ids generateId has handed out

genVars   == <<participants, maxAttempts, pc, ids, attempt, shuffles, result, console>>
valVars   == <<vParticipants, vAssignments, vBase, vEdit, vResult>>
rawVars   == <<rawParticipants, rawAssignments, rawOutcome>>
storeVars == <<storage, page, store, validated, lastOp, draws, clock>>
vars      == <<genVars, valVars, rawVars, storeVars>>

(***************************************************************************)
(* Bounds of the model.                                                    *)
(***************************************************************************)
MaxN == 3           \* longest participant list handed to the generator
MaxAttempts == 2    \* largest attempt budget handed to the generator
MaxVal == 3         \* longest list handed to the validator
MaxRaw == 2         \* longest untyped array handed to the validator
MaxStored == 2      \* longest list found in localStorage at page load

\* The id universe: opaque strings (store: generateId).
Ids == {"a", "b", "c", "d"}

Participant(i) == [id |-> i, name |-> "n"]
Assignment(g, r) == [giverId |-> g, receiverId |-> r]

\* T | null as a return value.
Null == [isNull |-> TRUE, value |-> <<>>]
Some(v) == [isNull |-> FALSE, value |-> v]

Range(s) == {s[k] : k \in DOMAIN s}
SeqsUpTo(S, n) == UNION {[1..k -> S] : k \in 0..n}
Distinct(s) == \A i, j \in DOMAIN s : i # j => s[i] # s[j]

\* array.map(p => p.id)
IdsOf(ps) == [k \in DOMAIN ps |-> ps[k].id]

(***************************************************************************)
(* shuffle: Fisher-Yates over a copy of the array.  js[i] is the value of  *)
(* Math.floor(Math.random() * (i + 1)) drawn at (0-based) index i.         *)
(***************************************************************************)
\* Mutant of RandomChoices: j is chosen below i.
RandomChoices_Exclusive(n) == {js \in [1..(n - 1) -> 0..(n - 1)] : \A i \in 1..(n - 1) : js[i] < i}

RandomChoices(n) == {js \in [1..(n - 1) -> 0..(n - 1)] : \A i \in 1..(n - 1) : js[i] <= i}

\* [result[i], result[j]] = [result[j], result[i]]   (i, j 0-based)
Swap(arr, i, j) == [arr EXCEPT ![i + 1] = arr[j + 1], ![j + 1] = arr[i + 1]]

RECURSIVE ShuffleFrom(_, _, _)
ShuffleFrom(arr, i, js) ==
    IF i > 0 THEN ShuffleFrom(Swap(arr, i, js[i]), i - 1, js) ELSE arr

shuffle(array, js) == ShuffleFrom(array, Len(array) - 1, js)

\* Mutant of ArrayAfterShuffle: the swaps are made in the argument itself.
ArrayAfterShuffle_InPlace(array, js) == ShuffleFrom(array, Len(array) - 1, js)

\* const result = [...array]: the swaps go to the copy, and the caller's array
\* is after the call what it was before
ArrayAfterShuffle(array, js) == array

\* Mutant of isDerangement: the loop stops one index early.
isDerangement_SkipLast(original, shuffled) ==
    \A i \in 1..(Len(original) - 1) : original[i] # shuffled[i]

\* Mutant of isDerangement: one moved element is enough.
isDerangement_SomeMoved(original, shuffled) ==
    \E i \in 1..Len(original) : original[i] # shuffled[i]

\* for i in 0..original.length-1: if original[i] === shuffled[i] return false
isDerangement(original, shuffled) ==
    \A i \in 1..Len(original) : original[i] # shuffled[i]

\* Mutant of Pairing: the index dropped from the receiver.
Pairing_FirstReceiver(idSeq, shuffledIds) ==
    [index \in DOMAIN idSeq |-> [giverId |-> idSeq[index], receiverId |-> shuffledIds[1]]]

\* Mutant of Pairing: giver and receiver exchanged.
Pairing_Reversed(idSeq, shuffledIds) ==
    [index \in DOMAIN idSeq |-> [giverId |-> shuffledIds[index], receiverId |-> idSeq[index]]]

\* Mutant of Pairing: the pairs listed from the last participant to the first.
Pairing_BackToFront(idSeq, shuffledIds) ==
    [index \in DOMAIN idSeq |->
        [giverId |-> idSeq[Len(idSeq) + 1 - index],
         receiverId |-> shuffledIds[Len(idSeq) + 1 - index]]]

\* ids.map((giverId, index) => ({giverId, receiverId: shuffledIds[index]}))
Pairing(idSeq, shuffledIds) ==
    [index \in DOMAIN idSeq |-> Assignment(idSeq[index], shuffledIds[index])]

(***************************************************************************)
(* generateDerangement, one step per loop iteration.                       *)
(***************************************************************************)
\* Mutant of TooFew: participants.length < 1.
TooFew_One(ps) == Len(ps) < 1

\* if (participants.length < 2)
TooFew(ps) == Len(ps) < 2

\* Mutant of LoopGuard: attempt <= maxAttempts.
LoopGuard_Inclusive(a, m) == a <= m

\* the loop condition: attempt < maxAttempts
LoopGuard(a, m) == a < m

\* The calls made: every participant list over Ids (ids may repeat) of at most
\* MaxN entries, every budget from -1 to MaxAttempts.
GenInit ==
    /\ participants \in SeqsUpTo({Participant(i) : i \in Ids}, MaxN)
    /\ maxAttempts \in (-1)..MaxAttempts
    /\ pc = "entry"
    /\ ids = <<>>
    /\ attempt = 0
    /\ shuffles = <<>>
    /\ result = Null
    /\ console = <<>>

\* return null (line 139) and return null (line 162): what the caller receives.
InsufficientSignal == Null
ExhaustedSignal == Null

GenEnter ==
    /\ pc = "entry"
    /\ IF TooFew(participants)
       THEN /\ console' = Append(console, "Need at least 2 participants for Secret Santa")
            /\ result' = InsufficientSignal
            /\ pc' = "done"
            /\ UNCHANGED <<ids, attempt>>
       ELSE /\ ids' = IdsOf(participants)
            /\ attempt' = 0
            /\ pc' = "loop"
            /\ UNCHANGED <<result, console>>
    /\ UNCHANGED <<participants, maxAttempts, shuffles>>

GenAttempt ==
    /\ pc = "loop"
    /\ LoopGuard(attempt, maxAttempts)
    /\ \E js \in RandomChoices(Len(ids)) :
          LET shuffledIds == shuffle(ids, js)
              idsAfter == ArrayAfterShuffle(ids, js)
          IN
          /\ shuffles' = Append(shuffles, shuffledIds)
          /\ ids' = idsAfter
          /\ IF isDerangement(idsAfter, shuffledIds)
             THEN /\ result' = Some(Pairing(idsAfter, shuffledIds))
                  /\ console' = Append(console, "Derangement generated successfully")
                  /\ pc' = "done"
                  /\ UNCHANGED attempt
             ELSE /\ attempt' = attempt + 1
                  /\ UNCHANGED <<result, console, pc>>
    /\ UNCHANGED <<participants, maxAttempts>>

GenExhausted ==
    /\ pc = "loop"
    /\ ~LoopGuard(attempt, maxAttempts)
    /\ console' = Append(console, "Failed to generate derangement")
    /\ result' = ExhaustedSignal
    /\ pc' = "done"
    /\ UNCHANGED <<participants, maxAttempts, ids, attempt, shuffles>>

(***************************************************************************)
(* Values as JSON.parse can deliver them.  An array-level value is an      *)
(* array, null or a number; an element is an object or null; a field holds *)
(* a string id, is missing (undefined) or holds a number.                  *)
(***************************************************************************)
UNDEFINED == "undefined"
NUMBER == "7"       \* a field value of type number: equal to no string id

JsArray(items) == [kind |-> "array", items |-> items]
JsNull == [kind |-> "null", items |-> <<>>]
JsNumber == [kind |-> "number", items |-> <<>>]

ParticipantObj(i) == [kind |-> "object", id |-> i]
ParticipantNull == [kind |-> "null", id |-> UNDEFINED]
AssignmentObj(g, r) == [kind |-> "object", giverId |-> g, receiverId |-> r]
AssignmentNull == [kind |-> "null", giverId |-> UNDEFINED, receiverId |-> UNDEFINED]

\* Typed arguments as the values they are at run time.
JsParticipants(ps) == JsArray([k \in DOMAIN ps |-> ParticipantObj(ps[k].id)])
JsAssignments(as) == JsArray([k \in DOMAIN as |-> AssignmentObj(as[k].giverId, as[k].receiverId)])

\* v.length: a number for an array, undefined (-1 here) for a number.
LengthOf(v) == IF v.kind = "array" THEN Len(v.items) ELSE -1

(***************************************************************************)
(* validateAssignments.  The outcome is "true", "false" or "throws" (a     *)
(* TypeError raised by a property access on null, a call of a missing      *)
(* method or an iteration over a non-iterable).                            *)
(***************************************************************************)
\* Mutant of BothExist: the receiver is not looked up.
BothExist_GiverOnly(a, participantIds) == a.giverId \in participantIds

\* participantIds.has(giverId) && participantIds.has(receiverId)
BothExist(a, participantIds) ==
    a.giverId \in participantIds /\ a.receiverId \in participantIds

\* Mutant of SelfAssigned: the check is missing.
SelfAssigned_Never(a) == FALSE

\* assignment.giverId === assignment.receiverId
SelfAssigned(a) == a.giverId = a.receiverId

\* Mutant of Duplicate: the two sets exchanged.
Duplicate_Crossed(a, giverIds, receiverIds) ==
    a.giverId \in receiverIds \/ a.receiverId \in giverIds

\* Mutant of Duplicate: only a repeated giver is noticed.
Duplicate_GiversOnly(a, giverIds, receiverIds) ==
    a.giverId \in giverIds

\* giverIds.has(giverId) || receiverIds.has(receiverId)
Duplicate(a, giverIds, receiverIds) ==
    a.giverId \in giverIds \/ a.receiverId \in receiverIds

\* return giverIds.size === participants.length && receiverIds.size === participants.length
FinalCheck(giverIds, receiverIds, n) ==
    Cardinality(giverIds) = n /\ Cardinality(receiverIds) = n

\* for (const assignment of assignments) { ... }: how the loop ends, and the
\* two sets as it leaves them
LoopEnd(outcome, giverIds, receiverIds) ==
    [outcome |-> outcome, giverIds |-> giverIds, receiverIds |-> receiverIds]
RECURSIVE AssignmentLoop(_, _, _, _, _)
AssignmentLoop(participantIds, items, k, giverIds, receiverIds) ==
    IF k > Len(items)
    THEN LoopEnd("completed", giverIds, receiverIds)
    ELSE LET assignment == items[k] IN
         IF assignment.kind = "null" THEN LoopEnd("throws", giverIds, receiverIds)
         ELSE IF ~BothExist(assignment, participantIds)
              THEN LoopEnd("false", giverIds, receiverIds)
         ELSE IF SelfAssigned(assignment) THEN LoopEnd("false", giverIds, receiverIds)
         ELSE IF Duplicate(assignment, giverIds, receiverIds)
              THEN LoopEnd("false", giverIds, receiverIds)
         ELSE AssignmentLoop(participantIds, items, k + 1,
                             giverIds \cup {assignment.giverId},
                             receiverIds \cup {assignment.receiverId})

\* the loop followed by the final return
ValidateLoop(participantIds, items, k, giverIds, receiverIds, n) ==
    LET end == AssignmentLoop(participantIds, items, k, giverIds, receiverIds)
    IN IF end.outcome # "completed" THEN end.outcome
       ELSE IF FinalCheck(end.giverIds, end.receiverIds, n) THEN "true" ELSE "false"

\* Mutant of ValidateRaw: the expected count is participantIds.size, the
\* number of distinct ids, instead of participants.length.
ValidateRaw_DistinctCount(P, A) ==
    IF A.kind = "null" \/ P.kind = "null" THEN "throws"
    ELSE IF P.kind # "array" THEN "throws"
    ELSE IF \E k \in DOMAIN P.items : P.items[k].kind = "null" THEN "throws"
    ELSE LET participantIds == {P.items[k].id : k \in DOMAIN P.items} IN
         IF LengthOf(A) # Cardinality(participantIds) THEN "false"
         ELSE IF A.kind # "array" THEN "throws"
         ELSE ValidateLoop(participantIds, A.items, 1, {}, {}, Cardinality(participantIds))

ValidateRaw(P, A) ==
    IF A.kind = "null" \/ P.kind = "null" THEN "throws"        \* .length of null
    ELSE IF LengthOf(A) # LengthOf(P) THEN "false"
    ELSE IF P.kind # "array" THEN "throws"                     \* participants.map is not a function
    ELSE IF \E k \in DOMAIN P.items : P.items[k].kind = "null" THEN "throws"   \* p.id of null
    ELSE IF A.kind # "array" THEN "throws"                     \* assignments is not iterable
    ELSE ValidateLoop({P.items[k].id : k \in DOMAIN P.items}, A.items, 1, {}, {},
                      Len(P.items))

validateAssignments(ps, as) ==
    ValidateRaw(JsParticipants(ps), JsAssignments(as)) = "true"

(***************************************************************************)
(* localStorage: five keys, each absent (getItem returns null), holding    *)
(* the JSON text of a value, or holding a text JSON.parse rejects.         *)
(***************************************************************************)
Absent(default) == [state |-> "absent", value |-> default]
Json(v) == [state |-> "json", value |-> v]
Garbage(default) == [state |-> "garbage", value |-> default]

\* Mutant of ClearedStorage: the sound key is not removed.
ClearedStorage_KeepsSound ==
    [participants |-> Absent(<<>>), assignments |-> Absent(<<>>), revealed |-> Absent(<<>>),
     isDrawComplete |-> Absent(FALSE), soundEnabled |-> Json(TRUE)]

\* clearState: every key of STORAGE_KEYS removed
ClearedStorage ==
    [participants |-> Absent(<<>>), assignments |-> Absent(<<>>), revealed |-> Absent(<<>>),
     isDrawComplete |-> Absent(FALSE), soundEnabled |-> Absent(FALSE)]

\* new Set(array): the elements in order of first occurrence
RECURSIVE NewSet(_)
NewSet(array) ==
    IF array = <<>> THEN <<>>
    ELSE LET front == NewSet(SubSeq(array, 1, Len(array) - 1))
             last == array[Len(array)]
         IN IF last \in Range(front) THEN front ELSE Append(front, last)

\* loadState: null when the participants key is absent or a JSON.parse throws
loadState(st) ==
    IF st.participants.state = "absent" THEN Null
    ELSE IF \E key \in DOMAIN st : st[key].state = "garbage" THEN Null
    ELSE Some([participants |-> st.participants.value,
               assignments |-> IF st.assignments.state = "json"
                               THEN st.assignments.value ELSE <<>>,
               revealedParticipants |-> IF st.revealed.state = "json"
                                        THEN st.revealed.value ELSE <<>>,
               isDrawComplete |-> IF st.isDrawComplete.state = "json"
                                  THEN st.isDrawComplete.value ELSE FALSE,
               soundEnabled |-> IF st.soundEnabled.state = "json"
                                THEN st.soundEnabled.value ELSE TRUE])

\* the state getInitialState returns when nothing usable is stored
FreshState ==
    [participants |-> <<>>, assignments |-> <<>>, revealedParticipants |-> <<>>,
     isDrawComplete |-> FALSE, soundEnabled |-> TRUE]

\* if (stored.isDrawComplete && stored.assignments.length > 0)
MustValidate(stored) == stored.isDrawComplete /\ Len(stored.assignments) > 0

\* getInitialState: the initial fields, the storage it leaves and the calls
\* of validateAssignments it made.
getInitialState(st) ==
    LET stored == loadState(st) IN
    IF stored.isNull
    THEN [initial |-> FreshState, storage |-> st, validated |-> <<>>]
    ELSE LET v == stored.value
             call == [participants |-> v.participants, assignments |-> v.assignments]
             hydrated == [participants |-> v.participants,
                          assignments |-> v.assignments,
                          revealedParticipants |-> NewSet(v.revealedParticipants),
                          isDrawComplete |-> v.isDrawComplete,
                          soundEnabled |-> v.soundEnabled]
         IN IF MustValidate(v)
            THEN IF ~validateAssignments(v.participants, v.assignments)
                 THEN [initial |-> FreshState, storage |-> ClearedStorage,
                       validated |-> <<call>>]
                 ELSE [initial |-> hydrated, storage |-> st, validated |-> <<call>>]
            ELSE [initial |-> hydrated, storage |-> st, validated |-> <<>>]

\* create(...): the initial fields, currentScreen and selectedParticipant
CreateStore(initial) ==
    [participants |-> initial.participants,
     assignments |-> initial.assignments,
     revealedParticipants |-> initial.revealedParticipants,
     isDrawComplete |-> initial.isDrawComplete,
     soundEnabled |-> initial.soundEnabled,
     currentScreen |-> IF initial.isDrawComplete THEN "select" ELSE "setup",
     selectedParticipant |-> Null]

\* A call on the store as lastOp records it.
Op(name, returned, generator) ==
    [name |-> name, arg |-> "", returned |-> returned, generator |-> generator]
OpOn(name, arg, returned) ==
    [name |-> name, arg |-> arg, returned |-> returned, generator |-> "not called"]
NoOp == Op("none", "void", "not called")

\* Page load: the module of the store is evaluated.
PageLoad ==
    /\ page = "closed"
    /\ LET got == getInitialState(storage) IN
          /\ store' = CreateStore(got.initial)
          /\ storage' = got.storage
          /\ validated' = got.validated
    /\ page' = "open"
    /\ lastOp' = Op("load", "void", "not called")
    /\ UNCHANGED <<draws, clock>>

(***************************************************************************)
(* The parts of the state a specification does not use stay at rest.       *)
(***************************************************************************)
GenIdle ==
    /\ participants = <<>>
    /\ maxAttempts = 0
    /\ pc = "idle"
    /\ ids = <<>>
    /\ attempt = 0
    /\ shuffles = <<>>
    /\ result = Null
    /\ console = <<>>

ValIdle ==
    /\ vParticipants = <<>>
    /\ vAssignments = <<>>
    /\ vBase = <<>>
    /\ vEdit = "none"
    /\ vResult = "none"

RawIdle ==
    /\ rawParticipants = JsNull
    /\ rawAssignments = JsNull
    /\ rawOutcome = "idle"

StoreIdle ==
    /\ storage = ClearedStorage
    /\ page = "closed"
    /\ store = CreateStore(FreshState)
    /\ validated = <<>>
    /\ lastOp = NoOp
    /\ draws = 0
    /\ clock = 0

(***************************************************************************)
(* SpecGen: one call of generateDerangement.                               *)
(***************************************************************************)
InitGen == GenInit /\ ValIdle /\ RawIdle /\ StoreIdle

NextGen ==
    \/ GenEnter /\ UNCHANGED <<valVars, rawVars, storeVars>>
    \/ GenAttempt /\ UNCHANGED <<valVars, rawVars, storeVars>>
    \/ GenExhausted /\ UNCHANGED <<valVars, rawVars, storeVars>>

SpecGen == InitGen /\ [][NextGen]_vars

\* The call runs on one thread to completion: a step that can be taken is taken.
SpecGenFair == SpecGen /\ WF_vars(NextGen)

\* The call has returned an assignment list.
Returned == pc = "done" /\ ~result.isNull
\* The call has returned null.
Failed == pc = "done" /\ result.isNull

DistinctIds(ps) == Distinct(IdsOf(ps))
IdSet(ps) == Range(IdsOf(ps))
Count(s, P(_)) == Cardinality({k \in DOMAIN s : P(s[k])})
HasFixedPoint(orig, perm) == \E k \in DOMAIN orig : orig[k] = perm[k]
Max0(m) == IF m > 0 THEN m ELSE 0

\* C1: whenever generateDerangement returns an assignment list for a list of
\* at least 2 participants with pairwise-distinct ids, no assignment of the
\* list has giverId = receiverId: the assignment whose giver is p never has
\* receiver p.
C1_Derangement ==
    (Returned /\ DistinctIds(participants) /\ Len(participants) >= 2) =>
        /\ \A k \in DOMAIN result.value : result.value[k].giverId # result.value[k].receiverId
        /\ \A p \in IdSet(participants) :
              \A k \in DOMAIN result.value :
                 result.value[k].giverId = p => result.value[k].receiverId # p

C1_Witness ==
    /\ Returned /\ DistinctIds(participants) /\ Len(participants) = 3
    /\ Len(shuffles) = 2

\* C2: every non-null result over n >= 2 pairwise-distinct ids has exactly n
\* assignments, each participant id exactly once as giver and exactly once
\* as receiver, and no id from outside the participant list.
C2_Bijection ==
    (Returned /\ DistinctIds(participants) /\ Len(participants) >= 2) =>
        /\ Len(result.value) = Len(participants)
        /\ \A p \in IdSet(participants) :
              /\ Count(result.value, LAMBDA a : a.giverId = p) = 1
              /\ Count(result.value, LAMBDA a : a.receiverId = p) = 1
        /\ \A k \in DOMAIN result.value :
              /\ result.value[k].giverId \in IdSet(participants)
              /\ result.value[k].receiverId \in IdSet(participants)

C2_Witness ==
    /\ Returned /\ DistinctIds(participants) /\ Len(participants) = 3
    /\ result.value[1].receiverId = participants[3].id

\* C3: every non-null result of generateDerangement for a participant list
\* with pairwise-distinct ids is accepted by validateAssignments for that list.
C3_ValidatorSoundness ==
    (Returned /\ DistinctIds(participants)) =>
        validateAssignments(participants, result.value)

C3_Witness ==
    /\ Returned /\ DistinctIds(participants) /\ Len(participants) = 3
    /\ validateAssignments(participants, result.value)

\* C6 as stated: generate on exactly 2 participants [X, Y] always returns
\* X->Y, Y->X, whatever the shuffles within the attempt budget produce.
C6_Original ==
    (pc = "done" /\ Len(participants) = 2 /\ DistinctIds(participants) /\ maxAttempts >= 1) =>
        result = Some(<<Assignment(participants[1].id, participants[2].id),
                        Assignment(participants[2].id, participants[1].id)>>)

\* C6 amended: on exactly 2 participants [X, Y] with distinct ids every
\* returned assignment list is X->Y, Y->X in that order; the call returns
\* null instead exactly when each of the Max0(maxAttempts) shuffles made
\* left [X, Y] unchanged.
C6_TwoParticipants ==
    (pc = "done" /\ Len(participants) = 2 /\ DistinctIds(participants)) =>
        /\ ~result.isNull =>
              result.value = <<Assignment(participants[1].id, participants[2].id),
                               Assignment(participants[2].id, participants[1].id)>>
        /\ result.isNull <=>
              /\ Len(shuffles) = Max0(maxAttempts)
              /\ \A k \in DOMAIN shuffles : shuffles[k] = IdsOf(participants)

C6_Witness ==
    /\ Returned /\ Len(participants) = 2 /\ DistinctIds(participants)
    /\ Len(shuffles) = 2

\* C7 as stated: on a list of length 0 or 1 the call fails with the
\* INSUFFICIENT_PARTICIPANTS signal, a signal other than EXHAUSTED, and makes
\* no shuffle attempt.
C7_Original ==
    (pc = "done" /\ Len(participants) < 2) =>
        /\ result = InsufficientSignal
        /\ InsufficientSignal # ExhaustedSignal
        /\ shuffles = <<>>

\* C7 amended: on a list of length 0 or 1 the call returns null, the same
\* value it returns on exhaustion, without making any shuffle attempt; only
\* the console line written tells the two failures apart.
C7_Insufficient ==
    /\ (pc = "done" /\ Len(participants) < 2) =>
          /\ result = Null
          /\ shuffles = <<>>
          /\ attempt = 0
          /\ console = <<"Need at least 2 participants for Secret Santa">>
    /\ (pc = "done" /\ Len(participants) >= 2 /\ result.isNull) =>
          console = <<"Failed to generate derangement">>

C7_Witness ==
    pc = "done" /\ Len(participants) = 1 /\ maxAttempts = 2 /\ result.isNull

\* C8: the call terminates; it makes at most maxAttempts shuffle attempts;
\* it returns null exactly when no shuffle it made is free of fixed points,
\* and then (for 2 or more participants) it has made all Max0(maxAttempts)
\* attempts -- none when maxAttempts <= 0.
C8_BoundedRetry ==
    /\ <>(pc = "done")
    /\ [](Len(shuffles) <= Max0(maxAttempts))
    /\ [](pc = "done" =>
            /\ result.isNull <=>
                  \A k \in DOMAIN shuffles : HasFixedPoint(IdsOf(participants), shuffles[k])
            /\ (result.isNull /\ Len(participants) >= 2) =>
                  Len(shuffles) = Max0(maxAttempts))

C8_Witness ==
    /\ Failed /\ Len(participants) = 3 /\ DistinctIds(participants)
    /\ maxAttempts = 2 /\ Len(shuffles) = 2

(***************************************************************************)
(* SpecVal: validateAssignments on typed inputs.  After a call that        *)
(* returned true, one assignment of the accepted list is edited (a person  *)
(* altering the stored data) and the validator is called again.            *)
(***************************************************************************)
ValIds == {"a", "b", "c"}

ValInit ==
    /\ vParticipants \in SeqsUpTo({Participant(i) : i \in ValIds}, MaxVal)
    /\ vAssignments \in SeqsUpTo({Assignment(g, r) : g \in ValIds, r \in ValIds}, MaxVal)
    /\ vBase = <<>>
    /\ vEdit = "none"
    /\ vResult = "none"

ValCall ==
    /\ vResult = "none"
    /\ vResult' = IF validateAssignments(vParticipants, vAssignments) THEN "true" ELSE "false"
    /\ UNCHANGED <<vParticipants, vAssignments, vBase, vEdit>>

Edited(edit, as) ==
    /\ vResult = "true"
    /\ vEdit = "none"
    /\ vBase' = vAssignments
    /\ vAssignments' = as
    /\ vEdit' = edit
    /\ vResult' = "none"
    /\ UNCHANGED vParticipants

\* one assignment becomes A -> A
EditSelf ==
    \E k \in DOMAIN vAssignments :
       Edited("self", [vAssignments EXCEPT ![k].receiverId = vAssignments[k].giverId])

\* one assignment gets the receiver of another one
EditDuplicateReceiver ==
    \E k, m \in DOMAIN vAssignments :
       /\ k # m
       /\ Edited("duplicate receiver",
                 [vAssignments EXCEPT ![k].receiverId = vAssignments[m].receiverId])

\* one assignment is removed
EditDrop ==
    \E k \in DOMAIN vAssignments :
       Edited("drop", [i \in 1..(Len(vAssignments) - 1) |->
                          IF i < k THEN vAssignments[i] ELSE vAssignments[i + 1]])

\* a giverId or a receiverId becomes an id that no participant has
EditUnknownId ==
    \E k \in DOMAIN vAssignments, x \in Ids \ IdSet(vParticipants) :
       \/ Edited("unknown giver", [vAssignments EXCEPT ![k].giverId = x])
       \/ Edited("unknown receiver", [vAssignments EXCEPT ![k].receiverId = x])

InitVal == GenIdle /\ ValInit /\ RawIdle /\ StoreIdle

NextVal ==
    \/ ValCall /\ UNCHANGED <<genVars, rawVars, storeVars>>
    \/ EditSelf /\ UNCHANGED <<genVars, rawVars, storeVars>>
    \/ EditDuplicateReceiver /\ UNCHANGED <<genVars, rawVars, storeVars>>
    \/ EditDrop /\ UNCHANGED <<genVars, rawVars, storeVars>>
    \/ EditUnknownId /\ UNCHANGED <<genVars, rawVars, storeVars>>

SpecVal == InitVal /\ [][NextVal]_vars

\* The data-model invariant of an assignment list over a participant list.
ValidDerangement(ps, as) ==
    /\ Len(as) = Len(ps)
    /\ \A k \in DOMAIN as : as[k].giverId \in IdSet(ps) /\ as[k].receiverId \in IdSet(ps)
    /\ \A k \in DOMAIN as : as[k].giverId # as[k].receiverId
    /\ \A p \in IdSet(ps) :
          /\ Count(as, LAMBDA a : a.giverId = p) = 1
          /\ Count(as, LAMBDA a : a.receiverId = p) = 1

\* C4: validateAssignments returns true if and only if (1) the two lists
\* have the same length, (2) every giverId and receiverId is a participant
\* id, (3) no assignment has giverId = receiverId and (4) every participant
\* id appears exactly once as giver and exactly once as receiver.
C4_ValidatorCorrect ==
    vResult # "none" =>
        ((vResult = "true") <=> ValidDerangement(vParticipants, vAssignments))

C4_Witness ==
    /\ vResult = "true" /\ Len(vParticipants) = 3 /\ vEdit = "none"
    /\ ValidDerangement(vParticipants, vAssignments)

\* C5: from an assignment list the validator accepts, each single edit --
\* a receiver set to its own giver, a receiver set to another assignment's
\* receiver, an assignment removed, a giverId or receiverId replaced by an
\* id outside the participant list -- gives a list the validator rejects.
C5_RejectsTampering ==
    (vEdit # "none" /\ vResult # "none") => vResult = "false"

C5_Witness ==
    /\ vEdit = "unknown receiver" /\ vResult = "false"
    /\ Len(vParticipants) = 3 /\ validateAssignments(vParticipants, vBase)

(***************************************************************************)
(* SpecRaw: validateAssignments on what JSON.parse of a stored or shared   *)
(* text can deliver: null, a number or an array whose elements are null or *)
(* objects with present, missing or number-valued fields.                  *)
(***************************************************************************)
RawIds == {"a", "b"}
FieldValues == RawIds \cup {UNDEFINED, NUMBER}

RawParticipantValues ==
    {JsNull, JsNumber} \cup
    {JsArray(items) :
        items \in SeqsUpTo({ParticipantNull} \cup {ParticipantObj(i) : i \in FieldValues}, MaxRaw)}

RawAssignmentValues ==
    {JsNull, JsNumber} \cup
    {JsArray(items) :
        items \in SeqsUpTo({AssignmentNull} \cup
                           {AssignmentObj(g, r) : g \in FieldValues, r \in FieldValues}, MaxRaw)}

RawInit ==
    /\ rawParticipants \in RawParticipantValues
    /\ rawAssignments \in RawAssignmentValues
    /\ rawOutcome = "none"

RawCall ==
    /\ rawOutcome = "none"
    /\ rawOutcome' = ValidateRaw(rawParticipants, rawAssignments)
    /\ UNCHANGED <<rawParticipants, rawAssignments>>

InitRaw == GenIdle /\ ValIdle /\ RawInit /\ StoreIdle
NextRaw == RawCall /\ UNCHANGED <<genVars, valVars, storeVars>>
SpecRaw == InitRaw /\ [][NextRaw]_vars

\* A value is well-formed when it is an array of objects whose fields are ids.
WellFormedParticipants(P) ==
    /\ P.kind = "array"
    /\ \A k \in DOMAIN P.items : P.items[k].kind = "object" /\ P.items[k].id \in RawIds
WellFormedAssignments(A) ==
    /\ A.kind = "array"
    /\ \A k \in DOMAIN A.items :
          /\ A.items[k].kind = "object"
          /\ A.items[k].giverId \in RawIds
          /\ A.items[k].receiverId \in RawIds
Malformed == ~(WellFormedParticipants(rawParticipants) /\ WellFormedAssignments(rawAssignments))

\* C9: for malformed input -- participants or assignments null, not a
\* sequence, holding a null element or an element whose giverId/receiverId
\* is missing or of the wrong type -- validateAssignments returns false and
\* raises no error.
C9_NeverThrows ==
    (rawOutcome # "none" /\ Malformed) => rawOutcome = "false"

(***************************************************************************)
(* SpecLoad: the page is loaded over a localStorage content that any       *)
(* earlier session, or a person editing the stored texts, may have left.   *)
(***************************************************************************)
LoadIds == {"a", "b"}

StoredItems(values, default) ==
    {Absent(default), Garbage(default)} \cup {Json(v) : v \in values}

StorageContents ==
    [participants : StoredItems(SeqsUpTo({Participant(i) : i \in LoadIds}, MaxStored), <<>>),
     assignments : StoredItems(SeqsUpTo({Assignment(g, r) : g \in LoadIds, r \in LoadIds},
                                        MaxStored), <<>>),
     revealed : StoredItems({<<>>, <<"a">>, <<"a", "a">>}, <<>>),
     isDrawComplete : StoredItems(BOOLEAN, FALSE),
     soundEnabled : StoredItems(BOOLEAN, FALSE)]

LoadInit ==
    /\ storage \in StorageContents
    /\ page = "closed"
    /\ store = CreateStore(FreshState)
    /\ validated = <<>>
    /\ lastOp = NoOp
    /\ draws = 0
    /\ clock = 0

InitLoad == GenIdle /\ ValIdle /\ RawIdle /\ LoadInit
NextLoad == PageLoad /\ UNCHANGED <<genVars, valVars, rawVars>>
SpecLoad == InitLoad /\ [][NextLoad]_vars

\* C10: the assignments taken from storage pass through validateAssignments
\* before the store exposes them: the initial store never holds
\* isDrawComplete = true with an assignment list the validator rejects for
\* the loaded participants, and never holds stored assignments for which
\* the validator was not called.
C10_LoadValidated ==
    page = "open" =>
        /\ store.isDrawComplete =>
              validateAssignments(store.participants, store.assignments)
        /\ store.assignments # <<>> =>
              \E k \in DOMAIN validated :
                 /\ validated[k].participants = store.participants
                 /\ validated[k].assignments = store.assignments

\* The validator was called at load and returned false.
LoadRejected ==
    /\ page = "open"
    /\ validated # <<>>
    /\ ~validateAssignments(validated[1].participants, validated[1].assignments)

\* C11: when the persisted assignments fail validation at load, every
\* persisted key is removed and the store starts empty: participants = [],
\* assignments = [], revealedParticipants = {}, isDrawComplete = false,
\* currentScreen = 'setup'; nothing of the rejected data is left in the store.
C11_RecoveryOnFailure ==
    LoadRejected =>
        /\ \A key \in DOMAIN storage : storage[key].state = "absent"
        /\ store.participants = <<>>
        /\ store.assignments = <<>>
        /\ store.revealedParticipants = <<>>
        /\ store.isDrawComplete = FALSE
        /\ store.currentScreen = "setup"
        /\ store.selectedParticipant = Null
        /\ store.soundEnabled = TRUE

C11_Witness ==
    /\ LoadRejected
    /\ Len(validated[1].participants) = 2
    /\ Len(validated[1].assignments) = 2
    /\ store.participants = <<>>

(***************************************************************************)
(* The store's actions (useSecretSantaStore.ts:68-232).                    *)
(***************************************************************************)
\* What is typed into the name field, with String.trim and toLowerCase on it.
RawNames == {"Ann", " ann ", "Bob", "Cy", "  "}
trim(name) ==
    CASE name = " ann " -> "ann"
      [] name = "  " -> ""
      [] OTHER -> name
toLowerCase(name) ==
    CASE name = "Ann" -> "ann"
      [] name = "Bob" -> "bob"
      [] name = "Cy" -> "cy"
      [] OTHER -> name

\* saveState: the five keys written, the Set spread into an array
saveState(state) ==
    [participants |-> Json(state.participants),
     assignments |-> Json(state.assignments),
     revealed |-> Json(state.revealedParticipants),
     isDrawComplete |-> Json(state.isDrawComplete),
     soundEnabled |-> Json(state.soundEnabled)]

\* generateId: Date.now() and a random suffix.  The ids are opaque and never
\* handed out twice: the clock picks the next one of IdOrder.
IdOrder == <<"a", "b", "c", "d">>
generateId(now) == IdOrder[now + 1]

\* Mutant of NameExists: the names compared as typed, case included.
NameExists_CaseSensitive(ps, trimmedName) ==
    \E k \in DOMAIN ps : ps[k].name = trimmedName

\* participants.some(p => p.name.toLowerCase() === trimmedName.toLowerCase())
NameExists(ps, trimmedName) ==
    \E k \in DOMAIN ps : toLowerCase(ps[k].name) = toLowerCase(trimmedName)

addParticipant ==
    /\ page = "open"
    /\ \E name \in RawNames :
          LET trimmedName == trim(name) IN
          /\ lastOp' = OpOn("addParticipant", name, "void")
          /\ IF trimmedName = "" \/ NameExists(store.participants, trimmedName)
             THEN UNCHANGED <<store, storage, clock>>
             ELSE LET newParticipant == [id |-> generateId(clock), name |-> trimmedName]
                      newState == [store EXCEPT
                                     !.participants = Append(@, newParticipant)]
                  IN /\ clock < Len(IdOrder)
                     /\ store' = newState
                     /\ storage' = saveState(newState)
                     /\ clock' = clock + 1
    /\ validated' = <<>>
    /\ UNCHANGED <<page, draws>>

\* state.participants.filter(p => p.id !== id)
Filter(ps, id) == SelectSeq(ps, LAMBDA p : p.id # id)

\* Mutant of RemoveRefused: the guard on isDrawComplete dropped.
RemoveRefused_Never(state) == FALSE

\* if (get().isDrawComplete) return
RemoveRefused(state) == state.isDrawComplete

\* The ids that exist: those generateId has handed out.
IdsSoFar == {IdOrder[k] : k \in 1..clock}

removeParticipant ==
    /\ page = "open"
    /\ \E id \in IdsSoFar :
          IF RemoveRefused(store)
          THEN /\ lastOp' = Op("removeParticipant", "void", "not called")
               /\ UNCHANGED <<store, storage>>
          ELSE LET newState == [store EXCEPT !.participants = Filter(@, id)]
               IN /\ lastOp' = OpOn("removeParticipant", id, "void")
                  /\ store' = newState
                  /\ storage' = saveState(newState)
    /\ validated' = <<>>
    /\ UNCHANGED <<page, draws, clock>>

\* maxAttempts: number = 1000
DefaultMaxAttempts == 1000

\* generateDerangement as its caller sees it: the values a call can return.
\* A run of m rejected shuffles exists as soon as one shuffle is rejected.
generateDerangement(ps, m) ==
    IF TooFew(ps) THEN {InsufficientSignal}
    ELSE LET idSeq == IdsOf(ps)
             shuffled == {shuffle(idSeq, js) : js \in RandomChoices(Len(idSeq))}
             accepted == {s \in shuffled : isDerangement(idSeq, s)}
         IN (IF LoopGuard(0, m) THEN {Some(Pairing(idSeq, s)) : s \in accepted} ELSE {})
            \cup (IF ~LoopGuard(0, m) \/ shuffled # accepted
                  THEN {ExhaustedSignal} ELSE {})

\* Mutant of DrawRefused: the guard on isDrawComplete dropped.
DrawRefused_Never(state) == FALSE

\* if (state.isDrawComplete) { ...; return false }
DrawRefused(state) == state.isDrawComplete

\* if (state.participants.length < 2) { ...; return false }
NotEnough(state) == Len(state.participants) < 2

\* Mutant of DrawFailed: the null result is not looked at.
DrawFailed_Never(assignments) == FALSE

\* if (!assignments) { ...; return false }
DrawFailed(assignments) == assignments.isNull

performDraw ==
    /\ page = "open"
    /\ IF DrawRefused(store) \/ NotEnough(store)
       THEN /\ lastOp' = Op("performDraw", "false", "not called")
            /\ UNCHANGED <<store, storage, draws>>
       ELSE \E assignments \in generateDerangement(store.participants, DefaultMaxAttempts) :
               IF DrawFailed(assignments)
               THEN /\ lastOp' = Op("performDraw", "false", "null")
                    /\ UNCHANGED <<store, storage, draws>>
               ELSE LET newState == [store EXCEPT !.assignments = assignments.value,
                                                  !.isDrawComplete = TRUE,
                                                  !.currentScreen = "select"]
                    IN /\ store' = newState
                       /\ storage' = saveState(newState)
                       /\ draws' = IF assignments.isNull THEN draws ELSE draws + 1
                       /\ lastOp' = Op("performDraw", "true",
                                       IF assignments.isNull THEN "null" ELSE "assignments")
    /\ validated' = <<>>
    /\ UNCHANGED <<page, clock>>

\* Mutant of AlreadyRevealed: the check dropped.
AlreadyRevealed_Never(state, participant) == FALSE

\* state.revealedParticipants.has(participant.id)
AlreadyRevealed(state, participant) == participant.id \in Range(state.revealedParticipants)

\* SelectScreen, the caller, lists store.participants; it is on screen once
\* the draw is complete.
selectParticipant ==
    /\ page = "open"
    /\ store.isDrawComplete
    /\ \E k \in DOMAIN store.participants :
          LET participant == store.participants[k] IN
          IF AlreadyRevealed(store, participant)
          THEN /\ lastOp' = Op("selectParticipant", "false", "not called")
               /\ UNCHANGED store
          ELSE /\ lastOp' = Op("selectParticipant", "true", "not called")
               /\ store' = [store EXCEPT !.selectedParticipant = Some(participant),
                                         !.currentScreen = "spin"]
    /\ validated' = <<>>
    /\ UNCHANGED <<storage, page, draws, clock>>

\* new Set(state.revealedParticipants).add(participantId)
SetAdd(set, x) == IF x \in Range(set) THEN set ELSE Append(set, x)

\* SpinScreen, the caller, passes selectedParticipant.id.
markAsRevealed ==
    /\ page = "open"
    /\ ~store.selectedParticipant.isNull
    /\ LET participantId == store.selectedParticipant.value.id IN
          LET newRevealed == SetAdd(store.revealedParticipants, participantId) IN
          /\ lastOp' = Op("markAsRevealed", "void", "not called")
          /\ store' = [store EXCEPT !.revealedParticipants = newRevealed,
                                    !.currentScreen = "reveal"]
          /\ storage' = saveState([store EXCEPT !.revealedParticipants = newRevealed])
    /\ validated' = <<>>
    /\ UNCHANGED <<page, draws, clock>>

\* Mutant of ResetFields: the revealed set is left as it is.
ResetFields_KeepsRevealed(state) ==
    [state EXCEPT !.participants = <<>>,
                  !.assignments = <<>>,
                  !.isDrawComplete = FALSE,
                  !.currentScreen = "setup",
                  !.selectedParticipant = Null]

\* the six fields resetAll sets (soundEnabled is not among them)
ResetFields(state) ==
    [state EXCEPT !.participants = <<>>,
                  !.assignments = <<>>,
                  !.revealedParticipants = <<>>,
                  !.isDrawComplete = FALSE,
                  !.currentScreen = "setup",
                  !.selectedParticipant = Null]

\* getAssignmentFor: find the assignment of the giver, then the participant
\* it names; null when either is missing
getAssignmentFor(state, participantId) ==
    LET found == {k \in DOMAIN state.assignments :
                     state.assignments[k].giverId = participantId}
    IN IF found = {} THEN Null
       ELSE LET assignment == state.assignments[CHOOSE k \in found : \A j \in found : k <= j]
                named == {k \in DOMAIN state.participants :
                             state.participants[k].id = assignment.receiverId}
            IN IF named = {} THEN Null
               ELSE Some(state.participants[CHOOSE k \in named : \A j \in named : k <= j])

\* resetAll: clearState, then set({...})
resetAll ==
    /\ page = "open"
    /\ storage' = ClearedStorage
    /\ store' = ResetFields(store)
    /\ lastOp' = Op("resetAll", "void", "not called")
    /\ draws' = 0
    /\ validated' = <<>>
    /\ UNCHANGED <<page, clock>>

\* The screens setScreen is called with (SelectScreen: 'setup', RevealScreen: 'select').
Screens == {"setup", "select"}

setScreen ==
    /\ page = "open"
    /\ \E screen \in Screens :
          /\ store' = [store EXCEPT !.currentScreen = screen]
          /\ lastOp' = Op("setScreen", "void", "not called")
    /\ validated' = <<>>
    /\ UNCHANGED <<storage, page, draws, clock>>

toggleSound ==
    /\ page = "open"
    /\ LET newState == [store EXCEPT !.soundEnabled = ~store.soundEnabled] IN
          /\ store' = newState
          /\ storage' = saveState(newState)
    /\ lastOp' = Op("toggleSound", "void", "not called")
    /\ validated' = <<>>
    /\ UNCHANGED <<page, draws, clock>>

\* Page reload: the old store is gone and the module of the store is evaluated
\* again over what localStorage holds.  A load that rejects the stored draw
\* empties the store as resetAll does.
Reload ==
    /\ page = "open"
    /\ LET got == getInitialState(storage) IN
          /\ store' = CreateStore(got.initial)
          /\ storage' = got.storage
          /\ validated' = got.validated
          /\ draws' = IF got.storage = storage THEN draws ELSE 0
    /\ lastOp' = Op("reload", "void", "not called")
    /\ UNCHANGED <<page, clock>>

(***************************************************************************)
(* SpecStore: a browser that starts with an empty localStorage; the page   *)
(* is loaded, the store's actions are called in any order, the page is     *)
(* reloaded at any time.                                                   *)
(***************************************************************************)
InitStore == GenIdle /\ ValIdle /\ RawIdle /\ StoreIdle

NextStore ==
    \/ PageLoad /\ UNCHANGED <<genVars, valVars, rawVars>>
    \/ addParticipant /\ UNCHANGED <<genVars, valVars, rawVars>>
    \/ removeParticipant /\ UNCHANGED <<genVars, valVars, rawVars>>
    \/ performDraw /\ UNCHANGED <<genVars, valVars, rawVars>>
    \/ selectParticipant /\ UNCHANGED <<genVars, valVars, rawVars>>
    \/ markAsRevealed /\ UNCHANGED <<genVars, valVars, rawVars>>
    \/ resetAll /\ UNCHANGED <<genVars, valVars, rawVars>>
    \/ setScreen /\ UNCHANGED <<genVars, valVars, rawVars>>
    \/ toggleSound /\ UNCHANGED <<genVars, valVars, rawVars>>
    \/ Reload /\ UNCHANGED <<genVars, valVars, rawVars>>

SpecStore == InitStore /\ [][NextStore]_vars

StoreTypeOK ==
    /\ page \in {"closed", "open"}
    /\ clock \in 0..Len(IdOrder)
    /\ draws \in 0..1
    /\ Len(store.participants) <= 3
    /\ Distinct(IdsOf(store.participants))
    /\ store.currentScreen \in {"setup", "select", "spin", "reveal"}

\* A draw has succeeded and the store has not been emptied since.
Drawn == draws > 0

\* C12: a page reload does not re-draw: when the store is re-initialised from
\* storage after a successful performDraw and any calls other than resetAll,
\* it holds isDrawComplete = true, the participants and the assignment list
\* (same pairs, same order) it held before the reload, and currentScreen =
\* 'select'.
C12_ReloadKeepsDraw ==
    [][(lastOp'.name = "reload" /\ Drawn) =>
          /\ store'.isDrawComplete
          /\ store'.participants = store.participants
          /\ store'.assignments = store.assignments
          /\ store'.currentScreen = "select"]_vars

\* C13: the draw is a one-time transition: when isDrawComplete is true,
\* performDraw returns false, does not call the generator and leaves the
\* assignments, the participants, the revealed set and the storage as they
\* are; between two points at which the store is emptied the generator
\* succeeds at most once.
C13_OneTimeDraw ==
    [][/\ (lastOp'.name = "performDraw" /\ store.isDrawComplete) =>
             /\ lastOp'.returned = "false"
             /\ lastOp'.generator = "not called"
             /\ store'.assignments = store.assignments
             /\ store'.participants = store.participants
             /\ store'.revealedParticipants = store.revealedParticipants
             /\ store'.isDrawComplete
             /\ storage' = storage
       /\ draws' <= 1]_vars

C13_Witness ==
    /\ lastOp.name = "performDraw"
    /\ lastOp.returned = "false"
    /\ store.isDrawComplete
    /\ draws = 1
    /\ Len(store.assignments) = 3

\* The calls the store offers, resetAll apart.
OtherActions ==
    {"addParticipant", "removeParticipant", "performDraw", "selectParticipant",
     "markAsRevealed", "setScreen", "toggleSound"}

\* C14: the assignment list is write-once: after a successful performDraw
\* none of addParticipant, removeParticipant, performDraw, selectParticipant,
\* markAsRevealed, setScreen and toggleSound changes the assignments; resetAll
\* replaces them by the empty list and also empties participants and
\* revealedParticipants, sets isDrawComplete to false and selectedParticipant
\* to null, and removes the persisted copy.
C14_WriteOnce ==
    [][/\ (Drawn /\ lastOp'.name \in OtherActions) =>
             store'.assignments = store.assignments
       /\ lastOp'.name = "resetAll" =>
             /\ store'.assignments = <<>>
             /\ store'.participants = <<>>
             /\ store'.revealedParticipants = <<>>
             /\ store'.isDrawComplete = FALSE
             /\ store'.selectedParticipant = Null
             /\ \A key \in DOMAIN storage' : storage'[key].state = "absent"]_vars

\* addParticipant has run on a drawn store and the two assignments are there.
C14_Witness ==
    /\ Drawn
    /\ lastOp.name = "addParticipant"
    /\ Len(store.participants) = 3
    /\ Len(store.assignments) = 2

\* The list ps without the entry that carries id, the others in their order.
Without(ps, id) ==
    IF \E k \in DOMAIN ps : ps[k].id = id
    THEN LET k == CHOOSE i \in DOMAIN ps : ps[i].id = id
         IN SubSeq(ps, 1, k - 1) \o SubSeq(ps, k + 1, Len(ps))
    ELSE ps

\* C15: participants are deleted only before a draw: when isDrawComplete is
\* true, removeParticipant(id) leaves the participant list, the assignments
\* and the storage as they are, whatever the id; when isDrawComplete is
\* false it removes exactly the participant with that id, keeps the others
\* in their order and saves the list.
C15_RemoveOnlyBeforeDraw ==
    [][lastOp'.name = "removeParticipant" =>
          IF store.isDrawComplete
          THEN /\ store'.participants = store.participants
               /\ store'.assignments = store.assignments
               /\ storage' = storage
          ELSE /\ store'.participants = Without(store.participants, lastOp'.arg)
               /\ storage'.participants = Json(store'.participants)]_vars

\* "a" has been removed from a list of three; "b" and "c" follow in order.
C15_Witness ==
    /\ lastOp.name = "removeParticipant"
    /\ lastOp.arg = "a"
    /\ IdsOf(store.participants) = <<"b", "c">>
    /\ ~store.isDrawComplete

\* C16: each participant reveals once: a selectParticipant that succeeds
\* never picks a participant in revealedParticipants, one that returns false
\* leaves currentScreen and selectedParticipant as they are, and no step
\* other than resetAll -- a reload included -- takes an element out of
\* revealedParticipants.
C16_RevealOnce ==
    [][/\ (lastOp'.name = "selectParticipant" /\ lastOp'.returned = "true") =>
             store'.selectedParticipant.value.id \notin Range(store.revealedParticipants)
       /\ (lastOp'.name = "selectParticipant" /\ lastOp'.returned = "false") =>
             /\ store'.currentScreen = store.currentScreen
             /\ store'.selectedParticipant = store.selectedParticipant
       /\ lastOp'.name # "resetAll" =>
             Range(store.revealedParticipants) \subseteq Range(store'.revealedParticipants)]_vars

\* C17: a failure of the generator is not fatal: when performDraw is called
\* with fewer than 2 participants, or generateDerangement hands it null,
\* performDraw returns false, every field of the store and the storage stay
\* as they are, and with 2 or more participants a later call of the
\* generator can still return assignments.
C17_FailureIsRetryable ==
    [][(/\ lastOp'.name = "performDraw"
        /\ ~store.isDrawComplete
        /\ (Len(store.participants) < 2 \/ lastOp'.generator = "null")) =>
          /\ lastOp'.returned = "false"
          /\ store' = store
          /\ storage' = storage
          /\ Len(store'.participants) >= 2 =>
                \E r \in generateDerangement(store'.participants, DefaultMaxAttempts) :
                   ~r.isNull]_vars

\* The generator has handed null to performDraw for three participants.
C17_Witness ==
    /\ lastOp.name = "performDraw"
    /\ lastOp.generator = "null"
    /\ lastOp.returned = "false"
    /\ Len(store.participants) = 3
    /\ ~store.isDrawComplete
    /\ store.assignments = <<>>

(***************************************************************************)
(* SpecGenVal: one call of generateDerangement and, on the list it         *)
(* returns, one call of validateAssignments.                               *)
(***************************************************************************)
\* validateAssignments(participants, assignments) on the generator's result:
\* vParticipants and vAssignments are the two arguments once the call is over.
GenCheck ==
    /\ pc = "done"
    /\ ~result.isNull
    /\ vResult = "none"
    /\ vParticipants' = participants
    /\ vAssignments' = result.value
    /\ vResult' = IF validateAssignments(participants, result.value) THEN "true" ELSE "false"
    /\ UNCHANGED <<genVars, vBase, vEdit>>

NextGenVal ==
    \/ NextGen
    \/ GenCheck /\ UNCHANGED <<rawVars, storeVars>>

SpecGenVal == InitGen /\ [][NextGenVal]_vars

\* C19: generator and validator do not mutate their inputs: in every step of
\* generateDerangement the participant sequence stays as it is, and so does
\* the id array the shuffle is called on; once the call is over (success or
\* failure) the participants are those passed in; validateAssignments leaves
\* the participants and the assignment list passed to it as they are.
C19_NoMutation ==
    [][/\ participants' = participants
       /\ pc = "loop" => ids' = ids
       /\ pc' = "done" => IdsOf(participants') = ids' \/ TooFew(participants)
       /\ vResult' # vResult =>
             /\ vParticipants' = participants
             /\ vAssignments' = result.value
             /\ result' = result]_vars

\* A call that succeeded at its second shuffle and whose result has been
\* through the validator.
C19_Witness ==
    /\ pc = "done"
    /\ Len(participants) = 3
    /\ Len(shuffles) = 2
    /\ vResult = "true"
    /\ vParticipants = participants

\* C20: in every successful result the k-th assignment has the id of the
\* k-th participant of the input as giverId and the k-th element of the
\* accepted shuffle as receiverId, for every position k.
C20_OutputOrder ==
    Returned =>
        /\ Len(result.value) = Len(participants)
        /\ \A k \in DOMAIN participants :
              /\ result.value[k].giverId = participants[k].id
              /\ result.value[k].receiverId = shuffles[Len(shuffles)][k]

C20_Witness ==
    /\ Returned
    /\ IdsOf(participants) = <<"c", "a", "b">>
    /\ shuffles[Len(shuffles)] = <<"a", "b", "c">>

(***************************************************************************)
(* The shuffle and the order of the attempts.                              *)
(***************************************************************************)
RECURSIVE Factorial(_)
Factorial(n) == IF n <= 1 THEN 1 ELSE n * Factorial(n - 1)

\* s holds the elements of t, each as often as t does.
IsPermutation(s, t) ==
    /\ Len(s) = Len(t)
    /\ \A x \in Range(s) \cup Range(t) :
          Cardinality({k \in DOMAIN s : s[k] = x}) = Cardinality({k \in DOMAIN t : t[k] = x})

\* The orderings of a sequence of pairwise-distinct elements.
Orderings(t) == {s \in [DOMAIN t -> Range(t)] : Range(s) = Range(t)}

\* C21: shuffle(ids) handles the indices from the last down to 1 and swaps
\* index i with an index j of [0, i]: the last element of its result is the
\* element the first choice picked; its result is a permutation of ids; for
\* n pairwise-distinct ids there are n! sequences of choices and they yield
\* n! different results, so every ordering has exactly one sequence; and
\* every derangement of ids is a result generateDerangement can return.
C21_ShuffleStructure ==
    /\ \A k \in DOMAIN shuffles : IsPermutation(shuffles[k], IdsOf(participants))
    /\ (pc = "loop" /\ attempt = 0) =>
          LET n == Len(ids)
              results == {shuffle(ids, js) : js \in RandomChoices(n)}
          IN /\ Cardinality(RandomChoices(n)) = Factorial(n)
             /\ \A js \in RandomChoices(n) :
                   /\ IsPermutation(shuffle(ids, js), ids)
                   /\ shuffle(ids, js)[n] = ids[js[n - 1] + 1]
             /\ Distinct(ids) =>
                   /\ Cardinality(results) = Factorial(n)
                   /\ results = Orderings(ids)
                   /\ LoopGuard(0, maxAttempts) =>
                         \A d \in Orderings(ids) :
                            ~HasFixedPoint(ids, d) =>
                               Some(Pairing(ids, d)) \in
                                  generateDerangement(participants, maxAttempts)

\* The loop over three distinct ids after a first shuffle that kept "a" in
\* its place.
C21_Witness ==
    /\ pc = "loop"
    /\ ids = <<"a", "b", "c">>
    /\ shuffles = << <<"a", "c", "b">> >>

\* C22: first success wins: the pairing returned is built from the first
\* attempt whose shuffle has no fixed point (ids[k] # shuffled[k] for every
\* k); every attempt before it had a fixed point; and once the call has
\* returned no further attempt is made.
C22_FirstSuccessWins ==
    [][/\ Returned' =>
             LET idSeq == IdsOf(participants')
                 last == Len(shuffles')
             IN /\ last >= 1
                /\ \A k \in 1..Len(idSeq) : idSeq[k] # shuffles'[last][k]
                /\ \A a \in 1..(last - 1) : HasFixedPoint(idSeq, shuffles'[a])
                /\ result'.value = [k \in 1..Len(idSeq) |->
                                      Assignment(idSeq[k], shuffles'[last][k])]
                /\ attempt' = last - 1
       /\ pc = "done" =>
             /\ pc' = "done"
             /\ shuffles' = shuffles
             /\ attempt' = attempt
             /\ result' = result]_vars

\* A call for three participants succeeded at its second attempt, and the
\* validator has run on the result afterwards.
C22_Witness ==
    /\ Returned
    /\ Len(participants) = 3
    /\ Len(shuffles) = 2
    /\ HasFixedPoint(IdsOf(participants), shuffles[1])
    /\ vResult # "none"

\* C23: in every state reached from an empty store by addParticipant,
\* removeParticipant, performDraw, selectParticipant, markAsRevealed,
\* setScreen, toggleSound, resetAll and reload, isDrawComplete = true implies
\* that validateAssignments(participants, assignments) is true; adding a
\* participant after the draw does not break it.
C23_StoreInvariant ==
    (page = "open" /\ store.isDrawComplete) =>
        validateAssignments(store.participants, store.assignments)

\* The actions that write to storage.
SavingActions ==
    {"addParticipant", "removeParticipant", "performDraw", "markAsRevealed",
     "toggleSound", "resetAll"}

\* The five persisted fields of a state, the revealed ids as a set.
Persisted(state) ==
    [participants |-> state.participants,
     assignments |-> state.assignments,
     revealedParticipants |-> Range(state.revealedParticipants),
     isDrawComplete |-> state.isDrawComplete,
     soundEnabled |-> state.soundEnabled]

\* C24: persistence agrees with memory: after each of addParticipant,
\* removeParticipant, performDraw, markAsRevealed, toggleSound and resetAll,
\* re-initialising the store from storage yields the participants,
\* assignments, revealedParticipants (as a set), isDrawComplete and
\* soundEnabled the store holds after the action; and loadState after
\* saveState gives back these five fields.
C24_PersistenceAgrees ==
    /\ lastOp.name \in SavingActions =>
          Persisted(getInitialState(storage).initial) = Persisted(store)
    /\ page = "open" =>
          /\ ~loadState(saveState(store)).isNull
          /\ Persisted(loadState(saveState(store)).value) = Persisted(store)

\* C25: after a successful draw getAssignmentFor(p.id) returns, for every
\* participant p, a participant of the list other than p: the one whose id
\* is the receiverId of the one assignment with giverId = p.id; no two
\* participants get the same receiver; an id without an assignment gets null.
C25_EveryoneHasAReceiver ==
    Drawn =>
        /\ \A k \in DOMAIN store.participants :
              LET p == store.participants[k]
                  got == getAssignmentFor(store, p.id)
                  mine == {i \in DOMAIN store.assignments :
                              store.assignments[i].giverId = p.id}
              IN /\ ~got.isNull
                 /\ \E j \in DOMAIN store.participants : store.participants[j] = got.value
                 /\ got.value.id # p.id
                 /\ Cardinality(mine) = 1
                 /\ \A i \in mine : store.assignments[i].receiverId = got.value.id
        /\ \A k, j \in DOMAIN store.participants :
              k # j => getAssignmentFor(store, store.participants[k].id).value.id #
                       getAssignmentFor(store, store.participants[j].id).value.id
        /\ \A id \in Ids :
              (\A i \in DOMAIN store.assignments : store.assignments[i].giverId # id) =>
                 getAssignmentFor(store, id).isNull

\* C27: the final size comparison is implied by the earlier checks: when a
\* call of validateAssignments passes the length check and its loop runs over
\* all assignments without returning false, the loop leaves as many distinct
\* givers, and as many distinct receivers, as there are participants, and the
\* final comparison is true.
C27_FinalCheckImplied ==
    LET n == Len(vParticipants)
        end == AssignmentLoop(IdSet(vParticipants), JsAssignments(vAssignments).items,
                              1, {}, {})
    IN (Len(vAssignments) = n /\ end.outcome = "completed") =>
          /\ Cardinality(end.giverIds) = n
          /\ Cardinality(end.receiverIds) = n
          /\ FinalCheck(end.giverIds, end.receiverIds, n)
          /\ vResult \in {"none", "true"}

\* A call for three participants whose loop completed.
C27_Witness ==
    /\ Len(vParticipants) = 3
    /\ Len(vAssignments) = 3
    /\ AssignmentLoop(IdSet(vParticipants), JsAssignments(vAssignments).items,
                      1, {}, {}).outcome = "completed"
    /\ vResult = "true"

(***************************************************************************)
(* SpecDup: participant lists that carry an id twice.  The validator is    *)
(* called on the lists of SpecVal, and the generator on lists one longer   *)
(* than MaxN over three ids, which all repeat an id and for which the      *)
(* generator can succeed; its result is then handed to the validator.      *)
(***************************************************************************)
DupLen == MaxN + 1
DupIds == {"a", "b", "c"}

DupInit ==
    /\ participants \in [1..DupLen -> {Participant(i) : i \in DupIds}]
    /\ maxAttempts \in {1, 2}      \* a first attempt, and a retry after a failed one
    /\ pc = "entry"
    /\ ids = <<>>
    /\ attempt = 0
    /\ shuffles = <<>>
    /\ result = Null
    /\ console = <<>>

InitDup ==
    \/ DupInit /\ ValIdle /\ RawIdle /\ StoreIdle
    \/ InitVal

NextDup ==
    \/ NextGenVal
    \/ NextVal

SpecDup == InitDup /\ [][NextDup]_vars

\* C28: a non-empty participant list that carries the same id twice is never
\* accepted: validateAssignments is false for it with every assignment list,
\* and with every list generateDerangement returns for it.
C28_DuplicateIdsRejected ==
    /\ (vParticipants # <<>> /\ ~DistinctIds(vParticipants)) =>
          /\ ~validateAssignments(vParticipants, vAssignments)
          /\ vResult # "true"
    /\ (Returned /\ ~DistinctIds(participants)) =>
          ~validateAssignments(participants, result.value)

\* The generator returned a list for participants a, a, b, ... and the
\* validator refused it.
C28_Witness ==
    /\ Returned
    /\ ~DistinctIds(participants)
    /\ vParticipants = participants
    /\ vAssignments = result.value
    /\ vResult = "false"

\* Names are non-empty and pairwise distinct when case is ignored.
NamesDistinct(ps) ==
    /\ \A k \in DOMAIN ps : ps[k].name # ""
    /\ \A k, j \in DOMAIN ps :
          k # j => toLowerCase(ps[k].name) # toLowerCase(ps[j].name)

\* C26: addParticipant with a name that is empty after trimming, or equal to
\* an existing name ignoring case, leaves participants and storage as they
\* were; with any other name it appends exactly one participant, carrying the
\* trimmed name, at the end of the list.  Hence the names of the store's
\* participants are always non-empty and pairwise distinct ignoring case.
C26_AddRejectsOrAppends ==
    /\ [][lastOp'.name = "addParticipant" =>
            LET trimmed == trim(lastOp'.arg)
                before == store.participants
                after == store'.participants
            IN IF \/ trimmed = ""
                  \/ \E k \in DOMAIN before :
                        toLowerCase(before[k].name) = toLowerCase(trimmed)
               THEN after = before /\ storage' = storage
               ELSE /\ Len(after) = Len(before) + 1
                    /\ SubSeq(after, 1, Len(before)) = before
                    /\ after[Len(after)].name = trimmed
                    /\ \A k \in DOMAIN before : before[k].id # after[Len(after)].id
                    /\ storage'.participants = Json(after)]_vars
    /\ [](page = "open" => NamesDistinct(store.participants))

\* "Ann" is in the list and " ann " was typed: the add was refused.
C26_Witness ==
    /\ lastOp.name = "addParticipant"
    /\ lastOp.arg = " ann "
    /\ Len(store.participants) = 2
    /\ store.participants[1].name = "Ann"
    /\ store.participants[2].name = "Bob"

(***************************************************************************)
(* SpecScreens: the store driven through the screens only.  App renders    *)
(* the screen named by currentScreen; each action below is a control of    *)
(* the screen that is showing, calling the store as its handler does.      *)
(* resetAll (the admin panel) and page reloads are left out.               *)
(***************************************************************************)
Showing(screen) == page = "open" /\ store.currentScreen = screen

\* SetupScreen: the form is rendered while !isDrawComplete; the handler
\* trims, refuses what the store would refuse, and passes the trimmed name
handleAddParticipant ==
    /\ Showing("setup")
    /\ ~store.isDrawComplete
    /\ addParticipant
    /\ lastOp'.arg = trim(lastOp'.arg)
    /\ store'.participants # store.participants

\* SetupScreen: the remove button of a card, rendered while !isDrawComplete
handleRemove ==
    /\ Showing("setup")
    /\ ~store.isDrawComplete
    /\ removeParticipant
    /\ lastOp'.arg \in IdSet(store.participants)

\* SetupScreen: the draw button, rendered while !isDrawComplete
handleDraw ==
    /\ Showing("setup")
    /\ ~store.isDrawComplete
    /\ Len(store.participants) >= 2
    /\ performDraw

\* SelectScreen: a card; a revealed participant is not passed to the store
handleSelect ==
    /\ Showing("select")
    /\ selectParticipant
    /\ lastOp'.returned = "true"

\* SelectScreen: the back button, setScreen('setup')
backButton ==
    /\ Showing("select")
    /\ setScreen
    /\ store'.currentScreen = "setup"

\* SpinScreen: the wheel is rendered when there is a selected participant
\* with an assigned person; when it stops it calls markAsRevealed
handleSpinComplete ==
    /\ Showing("spin")
    /\ ~store.selectedParticipant.isNull
    /\ ~getAssignmentFor(store, store.selectedParticipant.value.id).isNull
    /\ markAsRevealed

\* RevealScreen: the done button, setScreen('select')
handleDone ==
    /\ Showing("reveal")
    /\ setScreen
    /\ store'.currentScreen = "select"

\* SoundToggle is rendered by App next to every screen.
SoundToggle == toggleSound

NextScreens ==
    \/ PageLoad /\ UNCHANGED <<genVars, valVars, rawVars>>
    \/ handleAddParticipant /\ UNCHANGED <<genVars, valVars, rawVars>>
    \/ handleRemove /\ UNCHANGED <<genVars, valVars, rawVars>>
    \/ handleDraw /\ UNCHANGED <<genVars, valVars, rawVars>>
    \/ handleSelect /\ UNCHANGED <<genVars, valVars, rawVars>>
    \/ backButton /\ UNCHANGED <<genVars, valVars, rawVars>>
    \/ handleSpinComplete /\ UNCHANGED <<genVars, valVars, rawVars>>
    \/ handleDone /\ UNCHANGED <<genVars, valVars, rawVars>>
    \/ SoundToggle /\ UNCHANGED <<genVars, valVars, rawVars>>

SpecScreens == InitStore /\ [][NextScreens]_vars

\* A control of the showing screen that leads to another screen.
LeaveScreen == NextScreens /\ store'.currentScreen # store.currentScreen

\* C29: no navigation dead end after the draw: in every state with
\* isDrawComplete reached through the screens' controls, the select screen
\* is showing or the showing screen has a control that leads on from it, so
\* that the select screen can be reached again without resetAll or a reload.
C29_NoDeadEnd ==
    (page = "open" /\ store.isDrawComplete) =>
        \/ store.currentScreen = "select"
        \/ ENABLED LeaveScreen

====
